---- MODULE Spec2Model ----
(***************************************************************************)
(* n8n-nodes-algorand: the Algorand node's execute loop over a batch of    *)
(* input items (SDK node and REST node), the Algorand Trigger's poll with  *)
(* its persisted cursor, and the pure utility functions (unit conversion   *)
(* in double precision, minimum balance, ARC detection, IPFS gateway).     *)
(***************************************************************************)
EXTENDS Integers, Sequences, FiniteSets, TLC

\* ------------------------------------------------------------------ bounds
MaxRound == 2          \* ledger rounds 0..MaxRound
MaxBalanceSteps == 2   \* account balances 0..MaxBalanceSteps * BalanceUnit
BalanceUnit == 500000  \* microAlgos per balance step
MaxItems == 2          \* input items per execute call
MaxCalls == 3          \* request outcomes drawn per item
MaxCount == 5          \* each count of a MinBalanceParams is in 0..MaxCount
MaxFragments == 2      \* a url or name is made of at most MaxFragments fragments

\* --------------------------------------------------------------- constants
MICROALGOS_PER_ALGO == 1000000
MIN_BALANCE == 100000
MIN_BALANCE_PER_ASSET == 100000
MIN_BALANCE_PER_APP == 100000
MIN_BALANCE_PER_APP_UINT == 25000
MIN_BALANCE_PER_APP_BYTESLICE == 25000
MIN_BALANCE_PER_BOX == 2500
MIN_BALANCE_PER_BOX_BYTE == 400

\* ===================================================================
\*  Algorand Trigger (poll)
\* ===================================================================

VARIABLES
  event,         \* node parameter 'event'
  minAmount,     \* node parameter 'minAmount' (ALGO)
  ledger,        \* round -> the transaction the indexer query matches in it
  webhookData,   \* getWorkflowStaticData('node'): the persisted keys
  returnData,    \* the records collected by the last poll
  failedCall,    \* the outbound call that failed during the last poll
  observed,      \* the balance the last poll read, NoBalance if it read none
  firstRound,    \* the round stored by the first poll that stored one
  emitCount,     \* round -> events emitted for it so far (capped at 2)
  searchCount,   \* round -> successful indexer searches covering it (capped)
  issued,        \* the outbound calls the last poll made
  logged,        \* what the last poll passed to console.error, "none" if nothing
  propagated     \* the error that left the last poll, "none" if it returned

triggerVars == <<event, minAmount, ledger, webhookData, returnData, failedCall,
                 observed, firstRound, emitCount, searchCount, issued, logged,
                 propagated>>

VARIABLES
  node,            \* "sdk": Algorand.node.ts, "rest": the REST node
  continueOnFail,  \* this.continueOnFail()
  mnemonic,        \* credentials.mnemonic: "", "invalid" or "valid"
  nItems,          \* items.length
  restDispatch,    \* REST node: resource and operation, read once at index 0
  i,               \* the loop index, 0-based as in the code
  execData,        \* execute's returnData
  pc,              \* "idle", "loop", "returned" or "thrown"
  output,          \* what the call handed back to the host
  trace,           \* the requests and the throw of the item processed last
  lastItem,        \* index, parameters and error of the item processed last
                   \* (amount: the payment's 'amount' when it is a sendAlgo item)
  requests         \* call name -> requests issued for the item processed last

execVars == <<node, continueOnFail, mnemonic, nItems, restDispatch, i, execData,
              pc, output, trace, lastItem, requests>>

VARIABLES
  fn,      \* the utility function called last, "none" before any call
  args,    \* its arguments
  result,  \* what it returned
  thrown   \* the error it threw, "none" when it returned

utilVars == <<fn, args, result, thrown>>

VARIABLES
  licensingNoticeLogged,  \* module -> its module-level flag
  notices,                \* module -> times it wrote the notice to console.warn (capped at 2)
  invocations             \* module -> calls of its execute or poll so far (capped at 2)

moduleVars == <<licensingNoticeLogged, notices, invocations>>

vars == <<triggerVars, execVars, utilVars, moduleVars>>

\* the modules that hold a licensing notice: Algorand.node.ts and the trigger
Modules == {"node", "trigger"}

\* one more call of module m's entry point
Invoked(m) == [invocations EXCEPT ![m] = IF @ < 2 THEN @ + 1 ELSE @]

\* logLicensingNotice writing the notice on every call
logLicensingNoticeEveryCall(m) ==
  [licensingNoticeLogged |-> [licensingNoticeLogged EXCEPT ![m] = TRUE],
   notices |-> [notices EXCEPT ![m] = IF @ < 2 THEN @ + 1 ELSE @]]

\* logLicensingNotice() of module m: the flag and the notices written after the call
logLicensingNotice(m) ==
  IF ~licensingNoticeLogged[m]
  THEN [licensingNoticeLogged |-> [licensingNoticeLogged EXCEPT ![m] = TRUE],
        notices |-> [notices EXCEPT ![m] = IF @ < 2 THEN @ + 1 ELSE @]]
  ELSE [licensingNoticeLogged |-> licensingNoticeLogged, notices |-> notices]

Events == {"newBlock", "transactionForAddress", "paymentReceived",
           "paymentSent", "assetTransfer", "assetOptIn", "applicationCall",
           "balanceChange"}

SearchEvents == Events \ {"newBlock", "balanceChange"}

MinAmountEvents == {"paymentReceived", "paymentSent", "balanceChange"}

Rounds == 1..MaxRound

\* transactions the indexer can hold for the configured query
NoTx == [amount |-> -1, self |-> FALSE]
OptInTx == [amount |-> 0, self |-> TRUE]
BigTx == [amount |-> 2 * MICROALGOS_PER_ALGO, self |-> FALSE]
TxKinds == {NoTx, OptInTx, BigTx}

Balances == {k * BalanceUnit : k \in 0..MaxBalanceSteps}
NoBalance == 0 - 1
NoRound == 0 - 1

\* microAlgo / MICROALGOS_PER_ALGO, kept as an exact fraction
microAlgoToAlgo(microAlgo) == [num |-> microAlgo, den |-> MICROALGOS_PER_ALGO]

\* algo >= n for a whole number n of ALGO
AlgoGE(algo, n) == algo.num >= n * algo.den

Abs(n) == IF n < 0 THEN -n ELSE n

\* (webhookData.lastRound as number) || 0
lastRound == IF "lastRound" \in DOMAIN webhookData THEN webhookData.lastRound ELSE 0

\* (webhookData.lastBalance as number) || 0
lastBalance == IF "lastBalance" \in DOMAIN webhookData THEN webhookData.lastBalance ELSE 0

\* webhookData.<key> = value
Store(key, value) ==
  [k \in DOMAIN webhookData \cup {key} |-> IF k = key THEN value ELSE webhookData[k]]

\* the rounds of S in ascending order, as the loops visit them
RECURSIVE RoundsInOrder(_, _)
RoundsInOrder(lo, S) ==
  IF lo > MaxRound THEN <<>>
  ELSE (IF lo \in S THEN <<lo>> ELSE <<>>) \o RoundsInOrder(lo + 1, S)

Bump(count, S) == [r \in Rounds |-> IF r \in S /\ count[r] < 2 THEN count[r] + 1 ELSE count[r]]

\* what poll returns: null when nothing was collected
PollReturn == IF returnData = <<>> THEN "null" ELSE <<returnData>>

\* the catch of poll rethrowing what it caught
CatchRethrows(error) == [logged |-> error, propagated |-> error]

\* catch (error) { console.error(...) }: logged, not rethrown
Catch(error) == [logged |-> error, propagated |-> "none"]

\* the last of calls rejects before anything was pushed: the catch logs it
\* and poll returns null
PollCallFails(calls) ==
  /\ returnData' = <<>>
  /\ failedCall' = calls[Len(calls)]
  /\ issued' = {calls[k] : k \in 1..Len(calls)}
  /\ logged' = Catch(calls[Len(calls)]).logged
  /\ propagated' = Catch(calls[Len(calls)]).propagated
  /\ observed' = NoBalance
  /\ UNCHANGED <<event, minAmount, ledger, webhookData, firstRound, emitCount, searchCount>>
  /\ UNCHANGED <<execVars, utilVars>>

NewBlockRecord(round) == [event |-> "newBlock", round |-> round]

\* the records pushed for the fetched blocks
NewBlockRecords(S) ==
  LET order == RoundsInOrder(1, S) IN [n \in 1..Len(order) |-> NewBlockRecord(order[n])]

\* case 'newBlock'
PollNewBlock ==
  /\ event = "newBlock"
  /\ licensingNoticeLogged' = logLicensingNotice("trigger").licensingNoticeLogged
  /\ notices' = logLicensingNotice("trigger").notices
  /\ invocations' = Invoked("trigger")
  /\ \/ PollCallFails(<<"status">>)
     \/ \E currentRound \in 0..MaxRound :
          LET window == IF currentRound > lastRound THEN (lastRound + 1)..currentRound ELSE {}
          IN \E fetched \in SUBSET window :
               /\ returnData' = NewBlockRecords(fetched)
               /\ webhookData' = IF currentRound > lastRound
                                 THEN Store("lastRound", currentRound) ELSE webhookData
               /\ failedCall' = IF fetched = window THEN "none" ELSE "block"
               /\ issued' = IF window = {} THEN {"status"} ELSE {"status", "block"}
               /\ logged' = "none"
               /\ propagated' = "none"
               /\ emitCount' = Bump(emitCount, fetched)
               /\ firstRound' = IF firstRound = NoRound /\ currentRound > lastRound
                                THEN currentRound ELSE firstRound
               /\ observed' = NoBalance
               /\ UNCHANGED <<event, minAmount, ledger, searchCount>>
               /\ UNCHANGED <<execVars, utilVars>>

\* the client-side filter of each indexer event
Emits(tx) ==
  CASE event \in {"paymentReceived", "paymentSent"} -> AlgoGE(microAlgoToAlgo(tx.amount), minAmount)
    [] event = "assetOptIn" -> tx.self /\ tx.amount = 0
    [] OTHER -> TRUE

SearchRecord(round) == [event |-> event, confirmedRound |-> round]

\* the records pushed for the transactions of the response
SearchRecords(S) ==
  LET order == RoundsInOrder(1, S) IN [n \in 1..Len(order) |-> SearchRecord(order[n])]

\* if (lastRound > 0) taken on every poll
SearchesAlways == TRUE

\* if (lastRound > 0): the poll queries the indexer
Searches == lastRound > 0

\* the transactions the indexer returns for minRound..maxRound
SearchForTransactions(minRound, maxRound) ==
  {r \in Rounds : minRound <= r /\ r <= maxRound /\ ledger[r] # NoTx}

\* case 'transactionForAddress' | 'paymentReceived' | 'paymentSent' |
\*      'assetTransfer' | 'assetOptIn' | 'applicationCall'
PollSearch ==
  /\ event \in SearchEvents
  /\ licensingNoticeLogged' = logLicensingNotice("trigger").licensingNoticeLogged
  /\ notices' = logLicensingNotice("trigger").notices
  /\ invocations' = Invoked("trigger")
  /\ \/ PollCallFails(<<"status">>)
     \/ Searches /\ PollCallFails(<<"status", "search">>)
     \/ \E currentRound \in 0..MaxRound :
          LET response == IF Searches
                          THEN SearchForTransactions(lastRound + 1, currentRound) ELSE {}
              pushed == {r \in response : Emits(ledger[r])}
              window == IF Searches THEN (lastRound + 1)..currentRound ELSE {}
          IN /\ returnData' = SearchRecords(pushed)
             /\ webhookData' = Store("lastRound", currentRound)
             /\ failedCall' = "none"
             /\ issued' = IF Searches THEN {"status", "search"} ELSE {"status"}
             /\ logged' = "none"
             /\ propagated' = "none"
             /\ emitCount' = Bump(emitCount, pushed)
             /\ searchCount' = Bump(searchCount, window)
             /\ firstRound' = IF firstRound = NoRound THEN currentRound ELSE firstRound
             /\ observed' = NoBalance
             /\ UNCHANGED <<event, minAmount, ledger>>
             /\ UNCHANGED <<execVars, utilVars>>

BalanceRecord(previous, current) ==
  [event |-> "balanceChange",
   previousBalance |-> microAlgoToAlgo(previous),
   currentBalance |-> microAlgoToAlgo(current),
   change |-> microAlgoToAlgo(current - previous),
   direction |-> IF current - previous > 0 THEN "increase" ELSE "decrease"]

\* case 'balanceChange'
PollBalanceChange ==
  /\ event = "balanceChange"
  /\ licensingNoticeLogged' = logLicensingNotice("trigger").licensingNoticeLogged
  /\ notices' = logLicensingNotice("trigger").notices
  /\ invocations' = Invoked("trigger")
  /\ \/ PollCallFails(<<"accountInformation">>)
     \/ \E currentBalance \in Balances :
          LET change == currentBalance - lastBalance
              changeAlgo == microAlgoToAlgo(Abs(change))
          IN /\ returnData' = IF lastBalance > 0 /\ change # 0 /\ AlgoGE(changeAlgo, minAmount)
                              THEN <<BalanceRecord(lastBalance, currentBalance)>> ELSE <<>>
             /\ webhookData' = Store("lastBalance", currentBalance)
             /\ failedCall' = "none"
             /\ issued' = {"accountInformation"}
             /\ logged' = "none"
             /\ propagated' = "none"
             /\ observed' = currentBalance
             /\ UNCHANGED <<event, minAmount, ledger, firstRound, emitCount, searchCount>>
             /\ UNCHANGED <<execVars, utilVars>>

NextTrigger == PollNewBlock \/ PollSearch \/ PollBalanceChange


\* ===================================================================
\*  Algorand node (execute)
\* ===================================================================

NoError == "none"
NoOutput == "nothing"
NoItem == [index |-> -1, resource |-> "", operation |-> "", amount |-> [num |-> 0, den |-> 1],
           error |-> NoError]
NoDispatch == [resource |-> "", operation |-> ""]

\* amounts as fractions num/den; the last is a quarter of a microAlgo
Frac(n, d) == [num |-> n, den |-> d]
Amounts == {Frac(-1, 1), Frac(0, 1), Frac(2, 1), Frac(3, 2), Frac(1, 4 * MICROALGOS_PER_ALGO)}
IsInteger(a) == a.num % a.den = 0

\* steps of an operation, in the order the code runs them
Check(ok, class, message) == [kind |-> "check", ok |-> ok, class |-> class, message |-> message]
Net(call) == [kind |-> "net", ok |-> TRUE, class |-> "remote", message |-> call]

\* getSigningAccount with neither test of the mnemonic
SigningAccountUnchecked == <<>>

\* getSigningAccount
SigningAccount ==
  <<Check(mnemonic # "", "credential", "No mnemonic configured. A mnemonic is required to sign transactions."),
    Check(mnemonic = "valid", "credential", "Invalid mnemonic")>>

\* sendRawTransaction, then waitForConfirmation
Submit == <<Net("sendRawTransaction"), Net("waitForConfirmation")>>

Calls == {"accountInformation", "getTransactionParams", "sendRawTransaction",
          "waitForConfirmation", "searchForTransactions", "simulateTransactions",
          "getAssetByID", "axios.get", "status", "versionsCheck", "httpRequest"}

\* executeAccountOperation's switch
AccountSteps(p) ==
  CASE p.operation = "getBalance" ->
         <<Check(p.addressValid, "validation", "Invalid Algorand address"),
           Net("accountInformation")>>
    [] p.operation = "validateAddress" -> <<>>
    [] p.operation = "rekeyAccount" ->
         <<Check(p.addressValid, "validation", "Invalid new auth address")>>
         \o SigningAccount \o <<Net("getTransactionParams")>> \o Submit
    [] OTHER -> <<Check(FALSE, "unknown", "Unknown operation")>>

\* executeTransactionOperation's switch
TransactionSteps(p) ==
  CASE p.operation = "sendAlgo" ->
         <<Check(p.addressValid, "validation", "Invalid recipient address"),
           Check(p.amount.num > 0, "validation", "Amount must be greater than 0")>>
         \o SigningAccount \o <<Net("getTransactionParams")>> \o Submit
    [] p.operation = "getTransaction" ->
         <<Net("searchForTransactions"),
           Check(p.found, "remote", "Transaction not found")>>
    [] p.operation = "simulate" ->
         <<Check(p.addressValid, "validation", "Invalid recipient address for simulation")>>
         \o SigningAccount \o <<Net("getTransactionParams"), Net("simulateTransactions")>>
    [] OTHER -> <<Check(FALSE, "unknown", "Unknown operation")>>

\* executeAsaOperation's switch; BigInt(amount) throws on a fraction
AsaSteps(p) ==
  CASE p.operation = "transfer" ->
         <<Check(p.addressValid, "validation", "Invalid recipient address")>>
         \o SigningAccount
         \o <<Net("getTransactionParams"),
              Check(IsInteger(p.amount), "validation", "RangeError: cannot be converted to a BigInt")>>
         \o Submit
    [] OTHER -> <<Check(FALSE, "unknown", "Unknown operation")>>

\* executeNftOperation's switch
NftSteps(p) ==
  CASE p.operation = "getMetadata" ->
         <<Net("getAssetByID"),
           Check(p.found, "remote", "No metadata URL found for this asset"),
           Net("axios.get")>>
    [] OTHER -> <<Check(FALSE, "unknown", "Unknown operation")>>

\* executeApplicationOperation's switch; appArgs is left at its default '[]',
\* so callApp does not reach JSON.parse
ApplicationSteps(p) ==
  CASE p.operation = "callApp" -> SigningAccount \o <<Net("getTransactionParams")>> \o Submit
    [] OTHER -> <<Check(FALSE, "unknown", "Unknown operation")>>

\* executeBlockOperation's switch
BlockSteps(p) ==
  CASE p.operation = "getNodeStatus" -> <<Net("status"), Net("versionsCheck")>>
    [] OTHER -> <<Check(FALSE, "unknown", "Unknown operation")>>

\* executeUtilityOperation's switch
UtilitySteps(p) ==
  CASE p.operation = "algoToMicro" -> <<>>
    [] OTHER -> <<Check(FALSE, "unknown", "Unknown operation")>>

SdkResources == {"account", "transaction", "asa", "nft", "application", "block", "utility"}

\* the switch on resource of Algorand.execute
SdkSteps(p) ==
  CASE p.resource = "account" -> AccountSteps(p)
    [] p.resource = "transaction" -> TransactionSteps(p)
    [] p.resource = "asa" -> AsaSteps(p)
    [] p.resource = "nft" -> NftSteps(p)
    [] p.resource = "application" -> ApplicationSteps(p)
    [] p.resource = "block" -> BlockSteps(p)
    [] p.resource = "utility" -> UtilitySteps(p)
    [] OTHER -> <<Check(FALSE, "unknown", "Unknown resource")>>

RestResources == {"accounts", "transactions"}
RestOperations == {"getAccount", "submitTransaction", "getTransactionParams"}

RestKnown(resource, operation) ==
  \/ resource = "accounts" /\ operation = "getAccount"
  \/ resource = "transactions" /\ operation \in {"submitTransaction", "getTransactionParams"}

\* the switch on operation of an execute<Resource>Operations loop body
RestSteps(p) ==
  IF RestKnown(p.resource, p.operation) THEN <<Net("httpRequest")>>
  ELSE <<Check(FALSE, "unknown", "Unknown operation")>>

\* RunStep with a rejected request swallowed, so the steps after it still run
RunStepSwallowsRejection(step, outcomes, j) ==
  IF step.kind = "check"
  THEN [event |-> [kind |-> "throw", class |-> step.class, call |-> ""],
        error |-> IF step.ok THEN NoError ELSE step.message, request |-> FALSE]
  ELSE [event |-> [kind |-> "net", class |-> IF outcomes[j] THEN "ok" ELSE "rejected", call |-> step.message],
        error |-> NoError, request |-> TRUE]

\* one step: a check that throws, or a request that is rejected
RunStep(step, outcomes, j) ==
  IF step.kind = "check"
  THEN [event |-> [kind |-> "throw", class |-> step.class, call |-> ""],
        error |-> IF step.ok THEN NoError ELSE step.message, request |-> FALSE]
  ELSE [event |-> [kind |-> "net", class |-> IF outcomes[j] THEN "ok" ELSE "rejected", call |-> step.message],
        error |-> IF outcomes[j] THEN NoError ELSE step.message, request |-> TRUE]

\* the body of try: the steps in order, left at the first throw
RECURSIVE RunFrom(_, _, _, _, _)
RunFrom(steps, k, outcomes, j, done) ==
  IF k > Len(steps) THEN [trace |-> done, error |-> NoError]
  ELSE LET r == RunStep(steps[k], outcomes, j)
       IN IF r.error # NoError THEN [trace |-> Append(done, r.event), error |-> r.error]
          ELSE IF r.request THEN RunFrom(steps, k + 1, outcomes, j + 1, Append(done, r.event))
          ELSE RunFrom(steps, k + 1, outcomes, j, done)

\* ErrorRecord paired with the first item whatever the index
ErrorRecordAtZero(message, index) == [json |-> [error |-> message], pairedItem |-> [item |-> 0]]

ErrorRecord(message, index) == [json |-> [error |-> message], pairedItem |-> [item |-> index]]

SuccessRecord(p, index) ==
  [json |-> [resource |-> p.resource, operation |-> p.operation], pairedItem |-> [item |-> index]]

\* Caught with continueOnFail never consulted
CaughtAlwaysThrows(error, index) == [records |-> <<>>, thrown |-> error]

\* the catch of an execute<Resource>Operation: an error record, or rethrow
Caught(error, index) ==
  IF continueOnFail THEN [records |-> <<ErrorRecord(error, index)>>, thrown |-> NoError]
  ELSE [records |-> <<>>, thrown |-> error]

\* one resource handler call for item index: the records it returns, or what it throws
Handle(steps, p, index, outcomes) ==
  LET r == RunFrom(steps, 1, outcomes, 1, <<>>)
      h == IF r.error = NoError
           THEN [records |-> <<SuccessRecord(p, index)>>, thrown |-> NoError]
           ELSE Caught(r.error, index)
  IN [records |-> h.records, thrown |-> h.thrown, trace |-> r.trace, error |-> r.error]

\* an outcome is drawn for each request of the steps; the places past them stay TRUE
Drawn(steps, outcomes) ==
  \A j \in 1..MaxCalls :
     j > Cardinality({k \in 1..Len(steps) : steps[k].kind = "net"}) => outcomes[j]

CountCalls(t) == [c \in Calls |-> Cardinality({k \in 1..Len(t) : t[k].kind = "net" /\ t[k].call = c})]

\* the parameters an item can carry; a parameter the operation never reads is fixed
Params(resource, operation, addresses, amounts, founds) ==
  [resource : {resource}, operation : {operation}, addressValid : addresses,
   amount : amounts, found : founds]

SdkParams ==
  Params("account", "getBalance", BOOLEAN, {Frac(0, 1)}, {TRUE})
  \cup Params("account", "validateAddress", BOOLEAN, {Frac(0, 1)}, {TRUE})
  \cup Params("account", "rekeyAccount", BOOLEAN, {Frac(0, 1)}, {TRUE})
  \cup Params("transaction", "sendAlgo", BOOLEAN, Amounts, {TRUE})
  \cup Params("transaction", "getTransaction", {TRUE}, {Frac(0, 1)}, BOOLEAN)
  \cup Params("transaction", "simulate", BOOLEAN, Amounts, {TRUE})
  \cup Params("asa", "transfer", BOOLEAN, Amounts, {TRUE})
  \cup Params("nft", "getMetadata", {TRUE}, {Frac(0, 1)}, BOOLEAN)
  \cup Params("application", "callApp", {TRUE}, {Frac(0, 1)}, {TRUE})
  \cup Params("block", "getNodeStatus", {TRUE}, {Frac(0, 1)}, {TRUE})
  \cup Params("utility", "algoToMicro", {TRUE}, Amounts, {TRUE})
  \cup UNION {Params(r, "other", {TRUE}, {Frac(0, 1)}, {TRUE}) : r \in SdkResources \cup {"other"}}

\* the operations of SdkParams that call getSigningAccount
SigningOperations == {<<"account", "rekeyAccount">>, <<"transaction", "sendAlgo">>,
                      <<"transaction", "simulate">>, <<"asa", "transfer">>,
                      <<"application", "callApp">>}

\* execute is called, for the first time or after an earlier call ended:
\* logLicensingNotice (Algorand.node.ts only), getInputData, an empty
\* returnData.  The node's settings and credentials are those of the
\* workflow: drawn for the first call and met again by the later ones.
ExecuteBegin ==
  /\ pc \in {"idle", "returned", "thrown"}
  /\ node' \in IF pc = "idle" THEN {"sdk", "rest"} ELSE {node}
  /\ continueOnFail' \in IF pc = "idle" THEN BOOLEAN ELSE {continueOnFail}
  /\ mnemonic' \in IF pc = "idle" THEN {"", "invalid", "valid"} ELSE {mnemonic}
  /\ nItems' \in 1..MaxItems
  /\ restDispatch' \in IF pc # "idle" THEN {restDispatch}
                       ELSE IF node' = "rest"
                       THEN [resource : RestResources \cup {"other"}, operation : RestOperations \cup {"other"}]
                       ELSE {NoDispatch}
  /\ i' = 0
  /\ execData' = <<>>
  /\ pc' = "loop"
  /\ output' = NoOutput
  /\ trace' = <<>>
  /\ lastItem' = NoItem
  /\ requests' = [c \in Calls |-> 0]
  /\ licensingNoticeLogged' = IF node' = "sdk" THEN logLicensingNotice("node").licensingNoticeLogged
                              ELSE licensingNoticeLogged
  /\ notices' = IF node' = "sdk" THEN logLicensingNotice("node").notices ELSE notices
  /\ invocations' = IF node' = "sdk" THEN Invoked("node") ELSE invocations
  /\ UNCHANGED <<triggerVars, utilVars>>

\* what one loop iteration leaves behind
Iterate(h, p) ==
  /\ trace' = h.trace
  /\ requests' = CountCalls(h.trace)
  /\ lastItem' = [index |-> i, resource |-> p.resource, operation |-> p.operation,
                   amount |-> IF p.resource = "transaction" /\ p.operation = "sendAlgo"
                              THEN p.amount ELSE NoItem.amount,
                   error |-> h.error]
  /\ IF h.thrown = NoError
     THEN /\ execData' = execData \o h.records
          /\ i' = i + 1
          /\ pc' = "loop"
     ELSE /\ pc' = "thrown"
          /\ UNCHANGED <<execData, i>>
  /\ UNCHANGED <<node, continueOnFail, mnemonic, nItems, restDispatch, output>>
  /\ UNCHANGED <<triggerVars, utilVars, moduleVars>>

\* Algorand.execute, one iteration of the loop over the items
ExecuteItem ==
  /\ pc = "loop" /\ node = "sdk" /\ i < nItems
  /\ \E p \in SdkParams, outcomes \in [1..MaxCalls -> BOOLEAN] :
       /\ Drawn(SdkSteps(p), outcomes)
       /\ LET inner == Handle(SdkSteps(p), p, i, outcomes)
              \* the handler rethrows into execute's own catch
              h == IF inner.thrown = NoError THEN inner
                   ELSE [inner EXCEPT !.records = Caught(inner.thrown, i).records,
                                      !.thrown = Caught(inner.thrown, i).thrown]
          IN Iterate(h, p)

\* REST node: the resource switch of execute throws before any item is processed
RestUnknownResource ==
  /\ pc = "loop" /\ node = "rest" /\ i = 0
  /\ restDispatch.resource \notin RestResources
  /\ pc' = "thrown"
  /\ UNCHANGED <<node, continueOnFail, mnemonic, nItems, restDispatch, i, execData,
                 output, trace, lastItem, requests>>
  /\ UNCHANGED <<triggerVars, utilVars, moduleVars>>

\* REST node: one iteration of an execute<Resource>Operations loop
RestExecuteItem ==
  /\ pc = "loop" /\ node = "rest" /\ i < nItems
  /\ restDispatch.resource \in RestResources
  /\ \E outcomes \in [1..MaxCalls -> BOOLEAN] :
       LET p == [resource |-> restDispatch.resource, operation |-> restDispatch.operation]
       IN /\ Drawn(RestSteps(p), outcomes)
          /\ Iterate(Handle(RestSteps(p), p, i, outcomes), p)

\* return [returnData]
ExecuteReturn ==
  /\ pc = "loop" /\ i = nItems
  /\ node = "rest" => restDispatch.resource \in RestResources
  /\ pc' = "returned"
  /\ output' = <<execData>>
  /\ UNCHANGED <<node, continueOnFail, mnemonic, nItems, restDispatch, i, execData,
                 trace, lastItem, requests>>
  /\ UNCHANGED <<triggerVars, utilVars, moduleVars>>

NextExec == ExecuteBegin \/ ExecuteItem \/ RestUnknownResource \/ RestExecuteItem \/ ExecuteReturn


\* ===================================================================
\*  Utilities (unitConverter.ts, arcs.ts)
\* ===================================================================

\* ---- JavaScript numbers.  An integer is [neg, bits], its magnitude in
\* binary, most significant bit first.  [num, den] denotes the double
\* nearest num / den; den = 0 gives the values that are not finite.

Precision == 53

RECURSIVE Bin(_)
Bin(k) == IF k = 0 THEN <<>> ELSE Append(Bin(k \div 2), k % 2)

Big(k) == [neg |-> k < 0, bits |-> Bin(Abs(k))]

RECURSIVE Strip(_)
Strip(b) == IF b # <<>> /\ Head(b) = 0 THEN Strip(Tail(b)) ELSE b

Zeros(k) == [n \in 1..k |-> 0]

\* the arithmetic below takes the bits Chunk at a time
Chunk == 8
Radix == 256

RECURSIVE Val(_)
Val(b) == IF b = <<>> THEN 0 ELSE 2 * Val(SubSeq(b, 1, Len(b) - 1)) + b[Len(b)]

\* k in exactly w bits
Fixed(k, w) == Zeros(w - Len(Bin(k))) \o Bin(k)

\* b with zeros in front up to a whole number of chunks
Chunked(b) == Zeros((Chunk - (Len(b) % Chunk)) % Chunk) \o b

\* long division of the bits b by a small divisor d, from bit k on
RECURSIVE LongDiv(_, _, _, _)
LongDiv(b, k, d, st) ==
  IF k > Len(b) THEN st
  ELSE LET t == Radix * st.r + Val(SubSeq(b, k, k + Chunk - 1))
       IN LongDiv(b, k + Chunk, d, [q |-> st.q \o Fixed(t \div d, Chunk), r |-> t % d])

DivSmall(b, d) ==
  LET st == LongDiv(Chunked(b), 1, d, [q |-> <<>>, r |-> 0]) IN [q |-> Strip(st.q), r |-> st.r]

\* the bits b times a small factor c, from the chunk ending at bit k down
RECURSIVE MulFrom(_, _, _, _)
MulFrom(b, k, c, st) ==
  IF k = 0 THEN Bin(st.carry) \o st.p
  ELSE LET t == Val(SubSeq(b, k - Chunk + 1, k)) * c + st.carry
       IN MulFrom(b, k - Chunk, c, [p |-> Fixed(t % Radix, Chunk) \o st.p, carry |-> t \div Radix])

MulSmall(b, c) == Strip(MulFrom(Chunked(b), Len(Chunked(b)), c, [p |-> <<>>, carry |-> 0]))

RECURSIVE Inc(_)
Inc(b) ==
  IF b = <<>> THEN <<1>>
  ELSE IF b[Len(b)] = 0 THEN [b EXCEPT ![Len(b)] = 1]
  ELSE Append(Inc(SubSeq(b, 1, Len(b) - 1)), 0)

\* round to nearest, ties to even, keeping Precision bits: mant * 2^shift
RoundToDouble(b, sticky) ==
  IF Len(b) <= Precision THEN [mant |-> b, shift |-> 0]
  ELSE LET kept == SubSeq(b, 1, Precision)
           rest == sticky \/ \E k \in (Precision + 2)..Len(b) : b[k] = 1
           up == b[Precision + 1] = 1 /\ (rest \/ kept[Precision] = 1)
           m == IF up THEN Inc(kept) ELSE kept
       IN IF Len(m) > Precision
          THEN [mant |-> SubSeq(m, 1, Precision), shift |-> Len(b) - Precision + 1]
          ELSE [mant |-> m, shift |-> Len(b) - Precision]

\* the double num / den: the quotient carried far enough to round it
GuardBits == Precision + 22
Quotient(num, den) ==
  LET d == DivSmall(num.bits \o Zeros(GuardBits), den)
      r == RoundToDouble(d.q, d.r # 0)
  IN [neg |-> num.neg, mant |-> r.mant, exp |-> r.shift - GuardBits]

\* the double x * c for a small whole factor c
Multiply(x, c) ==
  LET r == RoundToDouble(MulSmall(x.mant, c), FALSE)
  IN [neg |-> x.neg, mant |-> r.mant, exp |-> x.exp + r.shift]

\* Math.round: the nearest integer, a tie going towards +Infinity
MathRound(x) ==
  LET L == Len(x.mant)
      k == 0 - x.exp
  IN IF x.exp >= 0
     THEN [neg |-> x.neg /\ L > 0, bits |-> IF L = 0 THEN <<>> ELSE x.mant \o Zeros(x.exp)]
     ELSE LET whole == IF k >= L THEN <<>> ELSE SubSeq(x.mant, 1, L - k)
              half == k <= L /\ x.mant[L - k + 1] = 1
              rest == \E q \in (L - k + 2)..L : x.mant[q] = 1
              up == IF x.neg THEN half /\ rest ELSE half
              bits == IF up THEN Inc(whole) ELSE whole
          IN [neg |-> x.neg /\ bits # <<>>, bits |-> bits]

NaN == [num |-> Big(0), den |-> 0]
PositiveInfinity == [num |-> Big(1), den |-> 0]
NegativeInfinity == [num |-> Big(-1), den |-> 0]

\* an integer above the reach of one machine word: hi * 2^HalfWidth + lo
HalfWidth == 26
Big2(hi, lo) ==
  [neg |-> FALSE,
   bits |-> Strip(Bin(hi) \o Zeros(HalfWidth - Len(Bin(lo))) \o Bin(lo))]

\* Math.round(algo * MICROALGOS_PER_ALGO); NaN and the infinities pass through
algoToMicroAlgo(algo) ==
  IF algo.den = 0 THEN algo
  ELSE MathRound(Multiply(Quotient(algo.num, algo.den), MICROALGOS_PER_ALGO))

\* the microAlgo amounts converted: small ones and ones near 2^52 and 2^53
MicroAmounts ==
  {Big2(hi, lo) : hi \in {0, 65515534, 134217727}, lo \in {0, 1, 1500000, 14991616, 67108863}}

\* the ALGO amounts converted
AlgoAmounts ==
  {NaN, PositiveInfinity, NegativeInfinity}
  \cup {[num |-> Big(k), den |-> d] : k \in {-3, -1, 0, 1, 3}, d \in {1, 2, 3}}
  \cup {microAlgoToAlgo(m) : m \in MicroAmounts}

\* microAlgoToAlgo(microAlgo)
MicroToAlgo ==
  /\ fn = "none"
  /\ \E m \in MicroAmounts :
       /\ args' = <<m>>
       /\ result' = microAlgoToAlgo(m)
  /\ fn' = "microAlgoToAlgo"
  /\ thrown' = NoError
  /\ UNCHANGED <<triggerVars, execVars, moduleVars>>

\* algoToMicroAlgo(algo)
AlgoToMicro ==
  /\ fn = "none"
  /\ \E a \in AlgoAmounts :
       /\ args' = <<a>>
       /\ result' = algoToMicroAlgo(a)
  /\ fn' = "algoToMicroAlgo"
  /\ thrown' = NoError
  /\ UNCHANGED <<triggerVars, execVars, moduleVars>>

\* interface MinBalanceParams: every field optional
MinBalanceFields == {"numAssets", "numApps", "numAppUints", "numAppByteSlices",
                     "numBoxes", "totalBoxBytes"}

MinBalanceParams == UNION {[S -> 0..MaxCount] : S \in SUBSET MinBalanceFields}

\* Term that takes the amount off instead of adding it
TermSubtracts(params, field, unit) ==
  IF field \in DOMAIN params /\ params[field] # 0 THEN 0 - params[field] * unit ELSE 0

\* Term that charges a present field once, whatever its count
TermChargesOnce(params, field, unit) ==
  IF field \in DOMAIN params /\ params[field] # 0 THEN unit ELSE 0

\* if (params.<field>) { minBalance += params.<field> * <unit>; }
Term(params, field, unit) ==
  IF field \in DOMAIN params /\ params[field] # 0 THEN params[field] * unit ELSE 0

calculateMinBalance(params) ==
  MIN_BALANCE
  + Term(params, "numAssets", MIN_BALANCE_PER_ASSET)
  + Term(params, "numApps", MIN_BALANCE_PER_APP)
  + Term(params, "numAppUints", MIN_BALANCE_PER_APP_UINT)
  + Term(params, "numAppByteSlices", MIN_BALANCE_PER_APP_BYTESLICE)
  + Term(params, "numBoxes", MIN_BALANCE_PER_BOX)
  + Term(params, "totalBoxBytes", MIN_BALANCE_PER_BOX_BYTE)

\* calculateMinBalance(params)
CalculateMinBalance ==
  /\ fn = "none"
  /\ \E params \in MinBalanceParams :
       /\ args' = <<params>>
       /\ result' = calculateMinBalance(params)
  /\ fn' = "calculateMinBalance"
  /\ thrown' = NoError
  /\ UNCHANGED <<triggerVars, execVars, moduleVars>>

\* ---- strings are sequences of characters; a string | undefined is a
\* record [defined, chars]

StartsWith(s, prefix) == Len(prefix) <= Len(s) /\ SubSeq(s, 1, Len(prefix)) = prefix

EndsWith(s, suffix) ==
  Len(suffix) <= Len(s) /\ SubSeq(s, Len(s) - Len(suffix) + 1, Len(s)) = suffix

Includes(s, part) ==
  \E k \in 1..(Len(s) - Len(part) + 1) : SubSeq(s, k, k + Len(part) - 1) = part

\* s.slice(n)
Slice(s, n) == SubSeq(s, n + 1, Len(s))

Undefined == [defined |-> FALSE, chars |-> <<>>]
Defined(s) == [defined |-> TRUE, chars |-> s]

\* if (s): neither undefined nor ''
Truthy(s) == s.defined /\ s.chars # <<>>

Arc3 == <<"a", "r", "c", "3">>
HashArc3 == <<"#">> \o Arc3
AtArc3 == <<"@">> \o Arc3
TemplateIpfs == 
  <<"t", "e", "m", "p", "l", "a", "t", "e",
    "-", "i", "p", "f", "s", ":", "/", "/">>
IpfsScheme == <<"i", "p", "f", "s", ":", "/", "/">>
IpfsIo == <<"i", "p", "f", "s", ".", "i", "o">>
PinataCloud == 
  <<"p", "i", "n", "a", "t", "a",
    ".", "c", "l", "o", "u", "d">>
DefaultGateway == 
  <<"h", "t", "t", "p", "s", ":", "/", "/", "i", "p",
    "f", "s", ".", "i", "o", "/", "i", "p", "f", "s", "/">>
HttpGateway == <<"h", "t", "t", "p", ":", "/", "/", "g", "w", "/">>

\* the pieces urls and names are made of
Fragments == {Arc3, <<"#">>, <<"@">>, TemplateIpfs, IpfsScheme, <<"Q", "m">>}

RECURSIVE Concats(_)
Concats(n) ==
  IF n = 0 THEN {<<>>}
  ELSE LET shorter == Concats(n - 1)
       IN shorter \cup {s \o f : s \in shorter, f \in Fragments}

Strings == Concats(MaxFragments)

OptionalStrings == {Undefined} \cup {Defined(s) : s \in Strings}

\* the gateway bases passed to ipfsToHttp; the first is the parameter's default
Gateways == {DefaultGateway, HttpGateway, IpfsScheme, <<>>}

isIpfsUrl(url) ==
  StartsWith(url, IpfsScheme) \/ Includes(url, IpfsIo) \/ Includes(url, PinataCloud)

\* ipfsToHttp rewriting whatever isIpfsUrl accepts
ipfsToHttpAnyIpfsUrl(url, gateway) ==
  IF isIpfsUrl(url) THEN gateway \o Slice(url, Len(IpfsScheme)) ELSE url

ipfsToHttp(url, gateway) ==
  IF StartsWith(url, IpfsScheme) THEN gateway \o Slice(url, Len(IpfsScheme)) ELSE url

\* detectArcStandard testing the template prefix before the arc3 marker
detectArcStandardPrefixFirst(assetUrl, assetName) ==
  IF Truthy(assetUrl) /\ StartsWith(assetUrl.chars, TemplateIpfs) THEN "ARC19"
  ELSE IF Truthy(assetUrl) /\ (EndsWith(assetUrl.chars, HashArc3) \/ Includes(assetUrl.chars, Arc3))
  THEN "ARC3"
  ELSE IF Truthy(assetName) /\ EndsWith(assetName.chars, AtArc3) THEN "ARC3"
  ELSE "unknown"

\* detectArcStandard answering 'ARC69' for a url that carries no other mark
detectArcStandardKnowsArc69(assetUrl, assetName) ==
  IF Truthy(assetUrl) /\ (EndsWith(assetUrl.chars, HashArc3) \/ Includes(assetUrl.chars, Arc3))
  THEN "ARC3"
  ELSE IF Truthy(assetUrl) /\ StartsWith(assetUrl.chars, TemplateIpfs) THEN "ARC19"
  ELSE IF Truthy(assetName) /\ EndsWith(assetName.chars, AtArc3) THEN "ARC3"
  ELSE IF Truthy(assetUrl) THEN "ARC69"
  ELSE "unknown"

detectArcStandard(assetUrl, assetName) ==
  IF Truthy(assetUrl) /\ (EndsWith(assetUrl.chars, HashArc3) \/ Includes(assetUrl.chars, Arc3))
  THEN "ARC3"
  ELSE IF Truthy(assetUrl) /\ StartsWith(assetUrl.chars, TemplateIpfs) THEN "ARC19"
  ELSE IF Truthy(assetName) /\ EndsWith(assetName.chars, AtArc3) THEN "ARC3"
  ELSE "unknown"

\* detectArcStandard(assetUrl, assetName)
DetectArcStandard ==
  /\ fn = "none"
  /\ \E assetUrl \in OptionalStrings, assetName \in OptionalStrings :
       /\ args' = <<assetUrl, assetName>>
       /\ result' = detectArcStandard(assetUrl, assetName)
  /\ fn' = "detectArcStandard"
  /\ thrown' = NoError
  /\ UNCHANGED <<triggerVars, execVars, moduleVars>>

\* the asset names drawn for verifyStandard
AssetNames == {<<>>, <<"Q", "m">>, Arc3, <<"Q", "m">> \o AtArc3}

\* the asset that createArc69 creates: one unit, no decimals, the media url
\* as the asset url; the ARC-69 metadata goes into the note, not the asset
createArc69(nftName, mediaUrl) ==
  [url |-> Defined(mediaUrl), name |-> Defined(nftName), total |-> 1, decimals |-> 0]

\* what getAssetByID can answer with: an asset made by createArc69, or any other
Assets ==
  {[origin |-> "createArc69", params |-> createArc69(n, u)] : n \in AssetNames, u \in Strings}
  \cup {[origin |-> "other", params |-> [url |-> u, name |-> n, total |-> t, decimals |-> d]] :
          u \in OptionalStrings, n \in {Undefined} \cup {Defined(a) : a \in AssetNames},
          t \in {1, 2}, d \in {0, 1}}

\* the record of the nft operation verifyStandard; url?.startsWith is
\* undefined for an asset without url
verifyStandard(params) ==
  LET standard == detectArcStandard(params.url, params.name)
      hasUrl == Truthy(params.url)
  IN [isNft |-> params.total = 1 /\ params.decimals = 0,
      standard |-> standard,
      verification |->
        [isArc3 |-> standard = "ARC3" /\ hasUrl /\ Includes(params.url.chars, HashArc3),
         isArc69 |-> standard = "ARC69",
         isArc19 |-> [defined |-> params.url.defined,
                      value |-> params.url.defined /\ StartsWith(params.url.chars, TemplateIpfs)],
         hasMetadataUrl |-> hasUrl,
         isSingleUnit |-> params.total = 1,
         hasNoDecimals |-> params.decimals = 0]]

\* executeNftOperation, case 'verifyStandard': getAssetByID, then the record
VerifyStandard ==
  /\ fn = "none"
  /\ \E asset \in Assets, ok \in BOOLEAN :
       /\ args' = <<asset>>
       /\ result' = IF ok THEN verifyStandard(asset.params) ELSE NoOutput
       /\ thrown' = IF ok THEN NoError ELSE "getAssetByID"
  /\ fn' = "verifyStandard"
  /\ UNCHANGED <<triggerVars, execVars, moduleVars>>

\* ipfsToHttp(url, gateway)
IpfsToHttp ==
  /\ fn = "none"
  /\ \E url \in Strings, gateway \in Gateways :
       /\ args' = <<url, gateway>>
       /\ result' = ipfsToHttp(url, gateway)
  /\ fn' = "ipfsToHttp"
  /\ thrown' = NoError
  /\ UNCHANGED <<triggerVars, execVars, moduleVars>>

\* ---- credentials and the endpoints they select

\* 'mainnet'
Mainnet ==
  <<"m", "a", "i", "n", "n", "e", "t">>

\* 'testnet'
Testnet ==
  <<"t", "e", "s", "t", "n", "e", "t">>

\* 'betanet'
Betanet ==
  <<"b", "e", "t", "a", "n", "e", "t">>

\* 'custom'
Custom ==
  <<"c", "u", "s", "t", "o", "m">>

\* 'algonode'
Algonode ==
  <<"a", "l", "g", "o", "n", "o", "d", "e">>

\* 'purestake'
Purestake ==
  <<"p", "u", "r", "e", "s", "t", "a", "k", "e">>

\* 'localhost'
Localhost ==
  <<"l", "o", "c", "a", "l", "h", "o", "s", "t">>

\* '127.0.0.1'
Loopback ==
  <<"1", "2", "7", ".", "0", ".", "0", ".", "1">>

\* 'https://node.example'
PrivateNode ==
  <<"h", "t", "t", "p", "s", ":", "/", "/", "n", "o", "d", "e", ".", "e",
    "x", "a", "m", "p", "l", "e">>

\* 'https://'
Https ==
  <<"h", "t", "t", "p", "s", ":", "/", "/">>

\* credentials.purestakeApiKey as entered
ApiKey == <<"k", "e", "y">>

\* the token getAlgodConfig falls back to for a local node
SandboxToken == [n \in 1..64 |-> "a"]

\* the options of the credential's 'network' and 'apiProvider' properties
Networks == {Mainnet, Testnet, Betanet, Custom}
ApiProviders == {Algonode, Purestake, Custom}

ALGONODE_NETWORKS ==
  [n \in {Mainnet, Testnet, Betanet} |->
     CASE n = Mainnet ->
            \* 'https://mainnet-api.algonode.cloud', 'https://mainnet-idx.algonode.cloud'
            [algodUrl |->
               <<"h", "t", "t", "p", "s", ":", "/", "/", "m", "a", "i", "n", "n", "e",
                 "t", "-", "a", "p", "i", ".", "a", "l", "g", "o", "n", "o", "d", "e",
                 ".", "c", "l", "o", "u", "d">>,
             indexerUrl |->
               <<"h", "t", "t", "p", "s", ":", "/", "/", "m", "a", "i", "n", "n", "e",
                 "t", "-", "i", "d", "x", ".", "a", "l", "g", "o", "n", "o", "d", "e",
                 ".", "c", "l", "o", "u", "d">>]
       [] n = Testnet ->
            \* 'https://testnet-api.algonode.cloud', 'https://testnet-idx.algonode.cloud'
            [algodUrl |->
               <<"h", "t", "t", "p", "s", ":", "/", "/", "t", "e", "s", "t", "n", "e",
                 "t", "-", "a", "p", "i", ".", "a", "l", "g", "o", "n", "o", "d", "e",
                 ".", "c", "l", "o", "u", "d">>,
             indexerUrl |->
               <<"h", "t", "t", "p", "s", ":", "/", "/", "t", "e", "s", "t", "n", "e",
                 "t", "-", "i", "d", "x", ".", "a", "l", "g", "o", "n", "o", "d", "e",
                 ".", "c", "l", "o", "u", "d">>]
       [] n = Betanet ->
            \* 'https://betanet-api.algonode.cloud', 'https://betanet-idx.algonode.cloud'
            [algodUrl |->
               <<"h", "t", "t", "p", "s", ":", "/", "/", "b", "e", "t", "a", "n", "e",
                 "t", "-", "a", "p", "i", ".", "a", "l", "g", "o", "n", "o", "d", "e",
                 ".", "c", "l", "o", "u", "d">>,
             indexerUrl |->
               <<"h", "t", "t", "p", "s", ":", "/", "/", "b", "e", "t", "a", "n", "e",
                 "t", "-", "i", "d", "x", ".", "a", "l", "g", "o", "n", "o", "d", "e",
                 ".", "c", "l", "o", "u", "d">>]]

PURESTAKE_NETWORKS ==
  [n \in {Mainnet, Testnet, Betanet} |->
     CASE n = Mainnet ->
            \* 'https://mainnet-algorand.api.purestake.io/ps2', 'https://mainnet-algorand.api.purestake.io/idx2'
            [algodUrl |->
               <<"h", "t", "t", "p", "s", ":", "/", "/", "m", "a", "i", "n", "n", "e",
                 "t", "-", "a", "l", "g", "o", "r", "a", "n", "d", ".", "a", "p", "i",
                 ".", "p", "u", "r", "e", "s", "t", "a", "k", "e", ".", "i", "o", "/",
                 "p", "s", "2">>,
             indexerUrl |->
               <<"h", "t", "t", "p", "s", ":", "/", "/", "m", "a", "i", "n", "n", "e",
                 "t", "-", "a", "l", "g", "o", "r", "a", "n", "d", ".", "a", "p", "i",
                 ".", "p", "u", "r", "e", "s", "t", "a", "k", "e", ".", "i", "o", "/",
                 "i", "d", "x", "2">>]
       [] n = Testnet ->
            \* 'https://testnet-algorand.api.purestake.io/ps2', 'https://testnet-algorand.api.purestake.io/idx2'
            [algodUrl |->
               <<"h", "t", "t", "p", "s", ":", "/", "/", "t", "e", "s", "t", "n", "e",
                 "t", "-", "a", "l", "g", "o", "r", "a", "n", "d", ".", "a", "p", "i",
                 ".", "p", "u", "r", "e", "s", "t", "a", "k", "e", ".", "i", "o", "/",
                 "p", "s", "2">>,
             indexerUrl |->
               <<"h", "t", "t", "p", "s", ":", "/", "/", "t", "e", "s", "t", "n", "e",
                 "t", "-", "a", "l", "g", "o", "r", "a", "n", "d", ".", "a", "p", "i",
                 ".", "p", "u", "r", "e", "s", "t", "a", "k", "e", ".", "i", "o", "/",
                 "i", "d", "x", "2">>]
       [] n = Betanet ->
            \* 'https://betanet-algorand.api.purestake.io/ps2', 'https://betanet-algorand.api.purestake.io/idx2'
            [algodUrl |->
               <<"h", "t", "t", "p", "s", ":", "/", "/", "b", "e", "t", "a", "n", "e",
                 "t", "-", "a", "l", "g", "o", "r", "a", "n", "d", ".", "a", "p", "i",
                 ".", "p", "u", "r", "e", "s", "t", "a", "k", "e", ".", "i", "o", "/",
                 "p", "s", "2">>,
             indexerUrl |->
               <<"h", "t", "t", "p", "s", ":", "/", "/", "b", "e", "t", "a", "n", "e",
                 "t", "-", "a", "l", "g", "o", "r", "a", "n", "d", ".", "a", "p", "i",
                 ".", "p", "u", "r", "e", "s", "t", "a", "k", "e", ".", "i", "o", "/",
                 "i", "d", "x", "2">>]]

\* 'http://localhost:4001', 'http://localhost:8980'
SANDBOX_CONFIG ==
  [algodUrl |->
     <<"h", "t", "t", "p", ":", "/", "/", "l", "o", "c", "a", "l", "h", "o",
       "s", "t", ":", "4", "0", "0", "1">>,
   indexerUrl |->
     <<"h", "t", "t", "p", ":", "/", "/", "l", "o", "c", "a", "l", "h", "o",
       "s", "t", ":", "8", "9", "8", "0">>]

\* TABLE[network] || TABLE.mainnet
Lookup(table, network) == IF network \in DOMAIN table THEN table[network] ELSE table[Mainnet]

\* a || b on strings
OrElse(a, b) == IF a # <<>> THEN a ELSE b

\* the URLs entered for a custom endpoint; '' is the property's default
CustomUrls == {<<>>, SANDBOX_CONFIG.algodUrl, SANDBOX_CONFIG.indexerUrl, PrivateNode}

\* the credentials a user can save: the URL fields are shown for a custom provider only
CredentialSettings ==
  {c \in [network : Networks, apiProvider : ApiProviders,
          algodUrl : CustomUrls, algodToken : {<<>>},
          indexerUrl : CustomUrls, indexerToken : {<<>>},
          purestakeApiKey : {ApiKey}] :
     c.apiProvider # Custom => (c.algodUrl = <<>> /\ c.indexerUrl = <<>>)}

\* getIndexerConfig reading the mainnet entry whatever the network
getIndexerConfigMainnetOnly(credentials) ==
  IF credentials.apiProvider = Algonode
  THEN [url |-> ALGONODE_NETWORKS[Mainnet].indexerUrl, token |-> <<>>]
  ELSE IF credentials.apiProvider = Purestake
  THEN [url |-> PURESTAKE_NETWORKS[Mainnet].indexerUrl,
        token |-> [XAPIKey |-> credentials.purestakeApiKey]]
  ELSE IF credentials.apiProvider = Custom
  THEN [url |-> credentials.indexerUrl, token |-> credentials.indexerToken]
  ELSE [url |-> ALGONODE_NETWORKS[Mainnet].indexerUrl, token |-> <<>>]

getAlgodConfig(credentials) ==
  LET network == credentials.network
      apiProvider == credentials.apiProvider
      url == credentials.algodUrl
      token == credentials.algodToken
  IN IF apiProvider = Algonode
     THEN [url |-> Lookup(ALGONODE_NETWORKS, network).algodUrl, token |-> <<>>]
     ELSE IF apiProvider = Purestake
     THEN [url |-> Lookup(PURESTAKE_NETWORKS, network).algodUrl,
           token |-> [XAPIKey |-> credentials.purestakeApiKey]]
     ELSE IF apiProvider = Custom
     THEN IF Includes(url, Localhost) \/ Includes(url, Loopback)
          THEN [url |-> OrElse(url, SANDBOX_CONFIG.algodUrl), token |-> OrElse(token, SandboxToken)]
          ELSE [url |-> url, token |-> token]
     ELSE [url |-> ALGONODE_NETWORKS[Mainnet].algodUrl, token |-> <<>>]

getIndexerConfig(credentials) ==
  LET network == credentials.network
      apiProvider == credentials.apiProvider
      url == credentials.indexerUrl
      token == credentials.indexerToken
  IN IF apiProvider = Algonode
     THEN [url |-> Lookup(ALGONODE_NETWORKS, network).indexerUrl, token |-> <<>>]
     ELSE IF apiProvider = Purestake
     THEN [url |-> Lookup(PURESTAKE_NETWORKS, network).indexerUrl,
           token |-> [XAPIKey |-> credentials.purestakeApiKey]]
     ELSE IF apiProvider = Custom
     THEN IF url # <<>> /\ (Includes(url, Localhost) \/ Includes(url, Loopback))
          THEN [url |-> OrElse(url, SANDBOX_CONFIG.indexerUrl), token |-> OrElse(token, <<>>)]
          ELSE [url |-> url, token |-> token]
     ELSE [url |-> ALGONODE_NETWORKS[Mainnet].indexerUrl, token |-> <<>>]

\* the baseURL expression of the credential's test request; each of its
\* URL literals is letter for letter the algodUrl of the table entry named
testBaseURL(credentials) ==
  IF credentials.apiProvider = Algonode
  THEN (IF credentials.network = Mainnet THEN ALGONODE_NETWORKS[Mainnet].algodUrl
        ELSE IF credentials.network = Testnet THEN ALGONODE_NETWORKS[Testnet].algodUrl
        ELSE ALGONODE_NETWORKS[Betanet].algodUrl)
  ELSE IF credentials.apiProvider = Purestake
  THEN (IF credentials.network = Mainnet THEN PURESTAKE_NETWORKS[Mainnet].algodUrl
        ELSE PURESTAKE_NETWORKS[Testnet].algodUrl)
  ELSE credentials.algodUrl

\* getAlgodConfig(credentials)
GetAlgodConfig ==
  /\ fn = "none"
  /\ \E credentials \in CredentialSettings :
       /\ args' = <<credentials>>
       /\ result' = getAlgodConfig(credentials)
  /\ fn' = "getAlgodConfig"
  /\ thrown' = NoError
  /\ UNCHANGED <<triggerVars, execVars, moduleVars>>

\* getIndexerConfig(credentials)
GetIndexerConfig ==
  /\ fn = "none"
  /\ \E credentials \in CredentialSettings :
       /\ args' = <<credentials>>
       /\ result' = getIndexerConfig(credentials)
  /\ fn' = "getIndexerConfig"
  /\ thrown' = NoError
  /\ UNCHANGED <<triggerVars, execVars, moduleVars>>

\* the host evaluates the test request's baseURL for the saved credentials
CredentialTest ==
  /\ fn = "none"
  /\ \E credentials \in CredentialSettings :
       /\ args' = <<credentials>>
       /\ result' = testBaseURL(credentials)
  /\ fn' = "test"
  /\ thrown' = NoError
  /\ UNCHANGED <<triggerVars, execVars, moduleVars>>

\* ---- the node descriptions and the switches of execute

\* the options of the 'resource' property of each node's description
ResourceOptions ==
  [sdk |-> {"account", "transaction", "asa", "nft", "application", "block", "utility"},
   rest |-> {"accounts", "transactions", "assets", "applications", "blocks", "status"}]

\* the properties named 'operation' of each description: the resource each
\* is shown for and the values it offers
OperationDropdowns ==
  [sdk |->
     {[resource |-> "account",
       options |-> {"generateAccount", "getBalance", "getInfo", "getAssets", "getApplications",
                    "getTransactions", "getCreatedAssets", "getCreatedApps", "getMinBalance",
                    "validateAddress", "rekeyAccount"}],
      [resource |-> "transaction",
       options |-> {"sendAlgo", "getTransaction", "getPending", "waitForConfirmation",
                    "getSuggestedParams", "simulate"}],
      [resource |-> "asa",
       options |-> {"createAsset", "getAssetInfo", "transfer", "optIn", "optOut", "freeze",
                    "clawback", "destroy", "searchAssets", "getHolders"}],
      [resource |-> "nft",
       options |-> {"createArc3", "createArc69", "getNftInfo", "getMetadata", "transfer",
                    "verifyStandard"}],
      [resource |-> "application",
       options |-> {"getAppInfo", "getGlobalState", "getLocalState", "callApp", "optIn",
                    "closeOut", "clearState", "readBox", "getBoxNames"}],
      [resource |-> "block",
       options |-> {"getCurrentBlock", "getBlock", "getBlockHash", "waitForBlock",
                    "getNodeStatus"}],
      [resource |-> "utility",
       options |-> {"algoToMicro", "microToAlgo", "validateAddress", "encodeBase64",
                    "decodeBase64", "signData", "verifySignature", "compileTeal",
                    "disassembleTeal", "getGenesisInfo"}]},
   rest |->
     {[resource |-> "accounts",
       options |-> {"getAccount", "getAccounts", "getAccountTransactions", "getAccountAssets",
                    "getAccountApplications"}],
      [resource |-> "transactions",
       options |-> {"submitTransaction", "getPendingTransactions", "getTransaction",
                    "getTransactionParams", "simulateTransaction", "deletePendingTransaction"}],
      [resource |-> "assets",
       options |-> {"getAssets", "getAsset", "getAssetBalances", "getAssetTransactions"}],
      [resource |-> "applications",
       options |-> {"getApplications", "getApplication", "getApplicationLogs",
                    "getApplicationBox", "getApplicationBoxes"}],
      [resource |-> "blocks",
       options |-> {"getBlock", "getBlockLogs", "getBlockTransactions", "getLedgerSupply"}],
      [resource |-> "status",
       options |-> {"getStatus", "waitForBlock", "getHealth", "getSyncStatus"}]}]

\* the case labels of execute's switch on resource, each with the case
\* labels of the switch on operation in the handler it calls
SwitchCases ==
  [sdk |->
     [account |-> {"generateAccount", "getBalance", "getInfo", "getAssets", "getApplications",
                   "getTransactions", "getCreatedAssets", "getCreatedApps", "getMinBalance",
                   "validateAddress", "rekeyAccount"},
      transaction |-> {"sendAlgo", "getTransaction", "getPending", "waitForConfirmation",
                       "getSuggestedParams", "simulate"},
      asa |-> {"createAsset", "getAssetInfo", "transfer", "optIn", "optOut", "freeze",
               "clawback", "destroy", "searchAssets", "getHolders"},
      nft |-> {"createArc3", "createArc69", "getNftInfo", "getMetadata", "transfer",
               "verifyStandard"},
      application |-> {"getAppInfo", "getGlobalState", "getLocalState", "callApp", "optIn",
                       "closeOut", "clearState", "readBox", "getBoxNames"},
      block |-> {"getCurrentBlock", "getBlock", "getBlockHash", "waitForBlock",
                 "getNodeStatus"},
      utility |-> {"algoToMicro", "microToAlgo", "validateAddress", "encodeBase64",
                   "decodeBase64", "signData", "verifySignature", "compileTeal",
                   "disassembleTeal", "getGenesisInfo"}],
   rest |->
     [accounts |-> {"getAccount", "getAccounts", "getAccountTransactions", "getAccountAssets",
                    "getAccountApplications"},
      transactions |-> {"submitTransaction", "getPendingTransactions", "getTransaction",
                        "getTransactionParams", "simulateTransaction",
                        "deletePendingTransaction"},
      assets |-> {"getAssets", "getAsset", "getAssetBalances", "getAssetTransactions"},
      applications |-> {"getApplications", "getApplication", "getApplicationLogs",
                        "getApplicationBox", "getApplicationBoxes"},
      blocks |-> {"getBlock", "getBlockLogs", "getBlockTransactions", "getLedgerSupply"},
      status |-> {"getStatus", "waitForBlock", "getHealth", "getSyncStatus"}]]

\* the branch the two switches take for a resource and an operation
Dispatch(n, resource, operation) ==
  IF resource \notin DOMAIN SwitchCases[n] THEN "Unknown resource"
  ELSE IF operation \notin SwitchCases[n][resource] THEN "Unknown operation"
  ELSE operation

\* the values the host offers for 'operation' once 'resource' is chosen
Offered(n, resource) ==
  UNION {d.options : d \in {e \in OperationDropdowns[n] : e.resource = resource}}

\* a value no option list holds
Unlisted == "unlisted"

\* execute routes one item by its 'resource' and 'operation' parameters
Route ==
  /\ fn = "none"
  /\ \E n \in {"sdk", "rest"} :
       \E resource \in ResourceOptions[n] \cup {Unlisted} :
          \E operation \in Offered(n, resource) \cup {Unlisted} :
             /\ args' = <<n, resource, operation>>
             /\ result' = Dispatch(n, resource, operation)
  /\ fn' = "execute"
  /\ thrown' = NoError
  /\ UNCHANGED <<triggerVars, execVars, moduleVars>>

NextUtil ==
  \/ MicroToAlgo \/ AlgoToMicro \/ CalculateMinBalance \/ DetectArcStandard \/ IpfsToHttp
  \/ GetAlgodConfig \/ GetIndexerConfig \/ CredentialTest
  \/ Route \/ VerifyStandard

Next == NextTrigger \/ NextExec \/ NextUtil

\* a trigger with its parameters set and nothing stored; the node not yet called
InitTrigger ==
  /\ event \in Events
  /\ minAmount \in (IF event \in MinAmountEvents THEN {0, 1} ELSE {0})
  /\ ledger \in (IF event \in SearchEvents THEN [Rounds -> TxKinds] ELSE {[r \in Rounds |-> NoTx]})
  /\ webhookData = <<>>
  /\ returnData = <<>>
  /\ failedCall = "none"
  /\ observed = NoBalance
  /\ firstRound = NoRound
  /\ emitCount = [r \in Rounds |-> 0]
  /\ searchCount = [r \in Rounds |-> 0]
  /\ issued = {}
  /\ logged = "none"
  /\ propagated = "none"
  /\ node = "sdk"
  /\ continueOnFail = FALSE
  /\ mnemonic = ""
  /\ nItems = 0
  /\ restDispatch = NoDispatch
  /\ i = 0
  /\ execData = <<>>
  /\ pc = "idle"
  /\ output = NoOutput
  /\ trace = <<>>
  /\ lastItem = NoItem
  /\ requests = [c \in Calls |-> 0]
  /\ fn = "none"
  /\ args = <<>>
  /\ result = <<>>
  /\ thrown = "none"
  /\ licensingNoticeLogged = [m \in Modules |-> FALSE]
  /\ notices = [m \in Modules |-> 0]
  /\ invocations = [m \in Modules |-> 0]

\* the node not yet called; the trigger on its default event with nothing stored
InitExec ==
  /\ event = "newBlock"
  /\ minAmount = 0
  /\ ledger = [r \in Rounds |-> NoTx]
  /\ webhookData = <<>>
  /\ returnData = <<>>
  /\ failedCall = "none"
  /\ observed = NoBalance
  /\ firstRound = NoRound
  /\ emitCount = [r \in Rounds |-> 0]
  /\ searchCount = [r \in Rounds |-> 0]
  /\ issued = {}
  /\ logged = "none"
  /\ propagated = "none"
  /\ node = "sdk"
  /\ continueOnFail = FALSE
  /\ mnemonic = ""
  /\ nItems = 0
  /\ restDispatch = NoDispatch
  /\ i = 0
  /\ execData = <<>>
  /\ pc = "idle"
  /\ output = NoOutput
  /\ trace = <<>>
  /\ lastItem = NoItem
  /\ requests = [c \in Calls |-> 0]
  /\ fn = "none"
  /\ args = <<>>
  /\ result = <<>>
  /\ thrown = "none"
  /\ licensingNoticeLogged = [m \in Modules |-> FALSE]
  /\ notices = [m \in Modules |-> 0]
  /\ invocations = [m \in Modules |-> 0]

\* no utility function called yet; the trigger and the node as in InitExec
InitUtil ==
  /\ event = "newBlock"
  /\ minAmount = 0
  /\ ledger = [r \in Rounds |-> NoTx]
  /\ webhookData = <<>>
  /\ returnData = <<>>
  /\ failedCall = "none"
  /\ observed = NoBalance
  /\ firstRound = NoRound
  /\ emitCount = [r \in Rounds |-> 0]
  /\ searchCount = [r \in Rounds |-> 0]
  /\ issued = {}
  /\ logged = "none"
  /\ propagated = "none"
  /\ node = "sdk"
  /\ continueOnFail = FALSE
  /\ mnemonic = ""
  /\ nItems = 0
  /\ restDispatch = NoDispatch
  /\ i = 0
  /\ execData = <<>>
  /\ pc = "idle"
  /\ output = NoOutput
  /\ trace = <<>>
  /\ lastItem = NoItem
  /\ requests = [c \in Calls |-> 0]
  /\ fn = "none"
  /\ args = <<>>
  /\ result = <<>>
  /\ thrown = "none"
  /\ licensingNoticeLogged = [m \in Modules |-> FALSE]
  /\ notices = [m \in Modules |-> 0]
  /\ invocations = [m \in Modules |-> 0]

\* the trigger's polls
SpecTrigger == InitTrigger /\ [][NextTrigger]_vars

\* the node's execute calls
SpecExec == InitExec /\ [][NextExec]_vars

\* calls of the utility functions
SpecUtil == InitUtil /\ [][NextUtil]_vars

\* ===================================================================
\*  Properties
\* ===================================================================

\* C1: a failed item under continue-on-fail leaves the error record
\* {error: message} paired with its index and the loop goes on; without
\* continue-on-fail the failure aborts the call and nothing is returned.
C1_FailurePolicy ==
  /\ (lastItem.error # NoError /\ continueOnFail) =>
       /\ pc \in {"loop", "returned"}
       /\ i > lastItem.index
       /\ execData[lastItem.index + 1] =
            [json |-> [error |-> lastItem.error], pairedItem |-> [item |-> lastItem.index]]
       /\ pc = "returned" => i = nItems
  /\ (lastItem.error # NoError /\ ~continueOnFail) => pc = "thrown"
  /\ pc = "thrown" => output = NoOutput

\* C1 witness: the first item failed, the second was still processed, the batch returned
C1_Witness ==
  /\ pc = "returned" /\ continueOnFail /\ nItems = 2
  /\ DOMAIN output[1][1].json = {"error"}
  /\ "error" \notin DOMAIN output[1][2].json

\* C2: under continue-on-fail the returned batch has one record per input
\* item, in input order, each tagged with its item's index and holding
\* either a success payload or exactly the one field error.
C2_OneRecordPerItem ==
  (pc = "returned" /\ continueOnFail) =>
     /\ Len(output[1]) = nItems
     /\ \A k \in 1..Len(output[1]) :
          /\ output[1][k].pairedItem.item = k - 1
          /\ \/ DOMAIN output[1][k].json = {"error"}
             \/ "error" \notin DOMAIN output[1][k].json

\* C2 witness: a returned batch of two with a success first and an error second
C2_Witness ==
  /\ pc = "returned" /\ continueOnFail /\ nItems = 2
  /\ "error" \notin DOMAIN output[1][1].json
  /\ DOMAIN output[1][2].json = {"error"}
  /\ output[1][2].pairedItem.item = 1

\* C3: no item's trace holds a request followed by a validation error.
C3_ValidationBeforeNetwork ==
  \A k \in 1..Len(trace) :
     (trace[k].kind = "throw" /\ trace[k].class = "validation") =>
        \A m \in 1..(k - 1) : trace[m].kind # "net"

\* C4: the stored lastRound never decreases, whatever the event.
C4_CursorNeverDecreases == [][lastRound' >= lastRound]_vars

\* C5: a poll in which an outbound call failed leaves lastRound as it was.
C5_FailedPollKeepsCursor == [][failedCall' # "none" => lastRound' = lastRound]_vars

\* C6: a newBlock event is emitted at most once per round, and no round is
\* covered by two successful indexer searches.
C6_NoReprocessing ==
  \A r \in Rounds :
     /\ event = "newBlock" => emitCount[r] <= 1
     /\ searchCount[r] <= 1

\* C7: with event newBlock every round the cursor has passed was emitted
\* exactly once.
C7_EveryBlockOnce ==
  event = "newBlock" => \A r \in Rounds : r <= lastRound => emitCount[r] = 1

\* C8: with event transactionForAddress every transaction in a round after
\* the one the first poll stored, and which the cursor has passed, was emitted.
C8_EveryTransactionEmitted ==
  event = "transactionForAddress" =>
     \A r \in Rounds :
        (ledger[r] # NoTx /\ firstRound # NoRound /\ firstRound < r /\ r <= lastRound)
           => emitCount[r] >= 1

\* C9: with event balanceChange and minAmount 0, a poll that reads a balance
\* other than the one the previous poll read emits exactly one event, with
\* direction increase for a rise and decrease for a fall.
C9_BalanceChangeEmitted ==
  [][(/\ event = "balanceChange" /\ minAmount = 0
      /\ observed # NoBalance /\ observed' # NoBalance /\ observed' # observed)
     => /\ Len(returnData') = 1
        /\ returnData'[1].event = "balanceChange"
        /\ returnData'[1].direction = IF observed' > observed THEN "increase" ELSE "decrease"]_vars

\* C10: for one item each request of the operation is issued at most once,
\* and a rejected request is the last request of the item.
C10_NoRetry ==
  /\ \A c \in Calls : requests[c] <= 1
  /\ \A k \in 1..Len(trace) :
       (trace[k].kind = "net" /\ trace[k].class = "rejected") => k = Len(trace)

\* C10 witness: an item whose second request was rejected after the first succeeded
C10_Witness ==
  /\ Len(trace) = 2
  /\ trace[1].kind = "net" /\ trace[1].class = "ok"
  /\ trace[2].kind = "net" /\ trace[2].class = "rejected"
  /\ lastItem.error # NoError

\* C11: an unrecognized resource or operation follows the failure policy of
\* every other error: under continue-on-fail it leaves an error record for
\* its item and the call does not abort; otherwise the call aborts.
C11_UnknownDispatchPolicy ==
  /\ (lastItem.error \in {"Unknown resource", "Unknown operation"} /\ continueOnFail) =>
       /\ pc \in {"loop", "returned"}
       /\ execData[lastItem.index + 1] =
            [json |-> [error |-> lastItem.error], pairedItem |-> [item |-> lastItem.index]]
  /\ (lastItem.error \in {"Unknown resource", "Unknown operation"} /\ ~continueOnFail) =>
       pc = "thrown"
  /\ (node = "rest" /\ restDispatch.resource \notin RestResources /\ continueOnFail) =>
       pc # "thrown"

\* C13: converting a whole number n >= 0 of microAlgos to ALGO and back
\* gives n again.
C13_RoundTrip ==
  \A n \in MicroAmounts :
     (fn = "algoToMicroAlgo" /\ args = <<microAlgoToAlgo(n)>>) => result = n

\* C14: algoToMicroAlgo of a negative amount, NaN or an infinity fails with
\* InvalidAmount and returns nothing.
C14_InvalidAmountRejected ==
  (fn = "algoToMicroAlgo" /\ (args[1].den = 0 \/ args[1].num.neg)) =>
     thrown = "InvalidAmount"

\* C15: calculateMinBalance is never below the base reserve 100000, a field
\* never lowers the result below what it is with the field omitted, and a
\* field of 0 gives what omitting it gives.
C15_MinBalanceMonotone ==
  fn = "calculateMinBalance" =>
     /\ thrown = NoError
     /\ result >= 100000
     /\ \A f \in DOMAIN args[1] :
          LET omitted == [g \in DOMAIN args[1] \ {f} |-> args[1][g]]
          IN /\ result >= calculateMinBalance(omitted)
             /\ args[1][f] = 0 => result = calculateMinBalance(omitted)

\* C15 witness: a call with a zero field and a positive field
C15_Witness ==
  /\ fn = "calculateMinBalance"
  /\ DOMAIN args[1] = {"numBoxes", "totalBoxBytes"}
  /\ args[1].numBoxes = 0 /\ args[1].totalBoxBytes = 2
  /\ result = 100800

\* C16: calculateMinBalance is 100000 + numAssets*100000 + numApps*100000
\* + numAppUints*25000 + numAppByteSlices*25000 + numBoxes*2500
\* + totalBoxBytes*400 with an absent field counted as 0; {} gives 100000,
\* {numAssets: 5} gives 600000 and {numAssets: 2, numApps: 1} gives 400000.
C16_MinBalanceFormula ==
  fn = "calculateMinBalance" =>
     LET count(f) == IF f \in DOMAIN args[1] THEN args[1][f] ELSE 0
     IN /\ result = 100000 + count("numAssets") * 100000 + count("numApps") * 100000
                    + count("numAppUints") * 25000 + count("numAppByteSlices") * 25000
                    + count("numBoxes") * 2500 + count("totalBoxBytes") * 400
        /\ DOMAIN args[1] = {} => result = 100000
        /\ (DOMAIN args[1] = {"numAssets"} /\ args[1].numAssets = 5) => result = 600000
        /\ (DOMAIN args[1] = {"numAssets", "numApps"} /\ args[1].numAssets = 2
              /\ args[1].numApps = 1) => result = 400000

\* C16 witness: the call calculateMinBalance({numAssets: 2, numApps: 1})
C16_Witness ==
  /\ fn = "calculateMinBalance"
  /\ DOMAIN args[1] = {"numAssets", "numApps"}
  /\ args[1].numAssets = 2 /\ args[1].numApps = 1
  /\ result = 400000

\* C17: detectArcStandard returns for every url and name, undefined and
\* empty ones included, in this order of priority: ARC3 when the url ends
\* with #arc3 or contains arc3, else ARC19 when the url begins with
\* template-ipfs://, else ARC3 when the name ends with @arc3, else unknown.
C17_DetectArcStandardPriority ==
  fn = "detectArcStandard" =>
     LET url == args[1].chars
         name == args[2].chars
         urlHasArc3 ==
           /\ args[1].defined
           /\ \E k \in 1..Len(url) :
                k + 3 <= Len(url) /\ <<url[k], url[k + 1], url[k + 2], url[k + 3]>> = <<"a", "r", "c", "3">>
         urlIsTemplate ==
           /\ args[1].defined
           /\ Len(url) >= 16
           /\ SubSeq(url, 1, 16) = <<"t", "e", "m", "p", "l", "a", "t", "e", "-", "i", "p", "f", "s", ":", "/", "/">>
         nameIsArc3 ==
           /\ args[2].defined
           /\ Len(name) >= 5
           /\ SubSeq(name, Len(name) - 4, Len(name)) = <<"@", "a", "r", "c", "3">>
     IN /\ thrown = NoError
        /\ result = IF urlHasArc3 THEN "ARC3"
                    ELSE IF urlIsTemplate THEN "ARC19"
                    ELSE IF nameIsArc3 THEN "ARC3"
                    ELSE "unknown"

\* C17 witness: a template-ipfs:// url that contains arc3 is classified ARC3
C17_Witness ==
  /\ fn = "detectArcStandard"
  /\ args[1] = Defined(TemplateIpfs \o Arc3)
  /\ args[2] = Undefined
  /\ result = "ARC3"

\* C18: ipfsToHttp applied to its own result, with the same gateway, gives
\* that result again, for every url and every gateway base.
C18_IpfsToHttpIdempotent ==
  fn = "ipfsToHttp" => ipfsToHttp(result, args[2]) = result

\* C18 amended: the same for every gateway base that begins with http:// or
\* https://.
C18_IpfsToHttpIdempotentHttp ==
  (/\ fn = "ipfsToHttp"
   /\ \/ StartsWith(args[2], <<"h", "t", "t", "p", ":", "/", "/">>)
      \/ StartsWith(args[2], <<"h", "t", "t", "p", "s", ":", "/", "/">>))
  => ipfsToHttp(result, args[2]) = result

\* C18 witness: an ipfs:// url rewritten onto the default gateway
C18_Witness ==
  /\ fn = "ipfsToHttp"
  /\ args = <<IpfsScheme \o <<"Q", "m">>, DefaultGateway>>
  /\ result = DefaultGateway \o <<"Q", "m">>

\* C19: for a finite amount a >= 0, algoToMicroAlgo(a) is a * 1000000
\* rounded to the nearest integer, and is that product itself when the
\* product is a whole number.
C19_RoundsToNearest ==
  (fn = "algoToMicroAlgo" /\ args[1].den # 0 /\ ~args[1].num.neg) =>
     LET a == Quotient(args[1].num, args[1].den)
         product == [neg |-> FALSE, mant |-> MulSmall(a.mant, 1000000), exp |-> a.exp]
     IN result = MathRound(product)

\* the network and the provider an endpoint URL names
NamesNetwork(url, network) == StartsWith(url, Https \o network \o <<"-">>)
NamesProvider(url, provider) == Includes(url, <<".">> \o provider \o <<".">>)

\* C21: for each provider in {algonode, purestake} and each network in
\* {mainnet, testnet, betanet}, getAlgodConfig and getIndexerConfig return
\* the table entry of that provider and network, a URL naming both, so the
\* algod and the indexer URLs of one credential name the same network.
C21_EndpointsFollowSelection ==
  (/\ fn \in {"getAlgodConfig", "getIndexerConfig"}
   /\ args[1].apiProvider \in {Algonode, Purestake}
   /\ args[1].network \in {Mainnet, Testnet, Betanet}) =>
     LET table == IF args[1].apiProvider = Algonode THEN ALGONODE_NETWORKS ELSE PURESTAKE_NETWORKS
         entry == table[args[1].network]
         other == IF fn = "getAlgodConfig" THEN getIndexerConfig(args[1]).url
                  ELSE getAlgodConfig(args[1]).url
     IN /\ result.url = IF fn = "getAlgodConfig" THEN entry.algodUrl ELSE entry.indexerUrl
        /\ NamesNetwork(result.url, args[1].network)
        /\ NamesProvider(result.url, args[1].apiProvider)
        /\ NamesNetwork(other, args[1].network)
        /\ NamesProvider(other, args[1].apiProvider)

\* C21 witness: the indexer endpoint selected for PureStake on betanet
C21_Witness ==
  /\ fn = "getIndexerConfig"
  /\ args[1].apiProvider = Purestake /\ args[1].network = Betanet
  /\ NamesNetwork(result.url, Betanet) /\ NamesProvider(result.url, Purestake)
  /\ EndsWith(result.url, <<"i", "d", "x", "2">>)

\* C29: the base URL the credential test probes is the URL getAlgodConfig
\* selects for the same credentials.
C29_TestProbesRuntimeUrl ==
  fn = "test" => result = getAlgodConfig(args[1]).url

\* C22: the node's description defines exactly 6 resources and exactly one
\* operation dropdown for each of them, and an item whose resource and
\* operation are both values the description offers reaches a case of the
\* switches, never the unknown-resource or the unknown-operation error.
C22_SelectableIsHandled ==
  (/\ fn = "execute"
   /\ args[2] \in ResourceOptions[args[1]]
   /\ args[3] \in Offered(args[1], args[2])) =>
     /\ Cardinality(ResourceOptions[args[1]]) = 6
     /\ Cardinality(OperationDropdowns[args[1]]) = 6
     /\ \A r \in ResourceOptions[args[1]] :
          Cardinality({d \in OperationDropdowns[args[1]] : d.resource = r}) = 1
     /\ result \notin {"Unknown resource", "Unknown operation"}

\* C23: an item that ended in an error (thrown or kept as an error record)
\* has no accepted sendRawTransaction among its requests.
C23_ErrorMeansNothingSubmitted ==
  lastItem.error # NoError =>
     \A k \in 1..Len(trace) :
        ~(trace[k].kind = "net" /\ trace[k].call = "sendRawTransaction" /\ trace[k].class = "ok")

\* C24: a poll of a search event that finds no cursor (lastRound = 0)
\* issues no indexer search and emits nothing; when status answers, its
\* only effect on the stored data is lastRound, and when status fails the
\* stored data is left as it was.
C24_FirstPollOnlyStoresCursor ==
  [][(event \in SearchEvents /\ lastRound = 0) =>
       /\ "search" \notin issued'
       /\ returnData' = <<>>
       /\ emitCount' = emitCount
       /\ \/ failedCall' # "none" /\ webhookData' = webhookData
          \/ /\ failedCall' = "none"
             /\ \E r \in 0..MaxRound : webhookData' = Store("lastRound", r)]_vars

\* C24 witness: the first poll stored a round the ledger already holds a
\* matching transaction in, asked only for the status and emitted nothing
C24_Witness ==
  /\ event \in SearchEvents /\ issued = {"status"} /\ failedCall = "none"
  /\ firstRound >= 1 /\ lastRound = firstRound
  /\ ledger[1] # NoTx /\ Emits(ledger[1])
  /\ returnData = <<>>
  /\ \A r \in Rounds : emitCount[r] = 0

\* C25: a poll in which an outbound call failed returned normally, logged
\* the failure, and returned null when it had collected no record.
C25_FailureLoggedAndContained ==
  failedCall # "none" =>
     /\ propagated = "none"
     /\ logged = failedCall
     /\ returnData = <<>> => PollReturn = "null"

\* C25 as amended: the same, with the failure logged unless it is a block
\* fetch of newBlock, which is skipped without a log.
C25_FailureContained ==
  failedCall # "none" =>
     /\ propagated = "none"
     /\ failedCall # "block" => logged = failedCall
     /\ returnData = <<>> => PollReturn = "null"

\* C25 witness: the indexer search of a later poll failed, was logged, and
\* the poll returned null
C25_Witness ==
  /\ failedCall = "search" /\ "search" \in issued /\ lastRound > 0
  /\ logged = "search" /\ propagated = "none"
  /\ returnData = <<>> /\ PollReturn = "null"

C26_PaymentIsPositive ==
  (/\ lastItem.resource = "transaction" /\ lastItem.operation = "sendAlgo"
   /\ \E k \in 1..Len(trace) : trace[k].kind = "net" /\ trace[k].call = "sendRawTransaction") =>
     LET microAlgos == algoToMicroAlgo([num |-> Big(lastItem.amount.num),
                                        den |-> lastItem.amount.den])
     IN ~microAlgos.neg /\ microAlgos.bits # <<>>

NoMnemonic == "No mnemonic configured. A mnemonic is required to sign transactions."

\* C27 as stated: with no mnemonic in the credentials, an item of a signing
\* operation fails with 'No mnemonic configured...' and no request was
\* issued for it.
C27_NoMnemonicFailsFirst ==
  (/\ node = "sdk" /\ mnemonic = "" /\ lastItem # NoItem
   /\ <<lastItem.resource, lastItem.operation>> \in SigningOperations) =>
     /\ lastItem.error = NoMnemonic
     /\ \A k \in 1..Len(trace) : trace[k].kind # "net"

\* C27 amended: with no mnemonic in the credentials, an item of a signing
\* operation fails without any request being issued for it; the failure is
\* 'No mnemonic configured...' unless one of the operation's own parameter
\* checks, which run before getSigningAccount, has already rejected the item.
C27_NoMnemonicNoRequest ==
  (/\ node = "sdk" /\ mnemonic = "" /\ lastItem # NoItem
   /\ <<lastItem.resource, lastItem.operation>> \in SigningOperations) =>
     /\ lastItem.error # NoError
     /\ requests = [c \in Calls |-> 0]
     /\ Len(trace) = 1 /\ trace[1].kind = "throw"
     /\ trace[1].class \in {"validation", "credential"}
     /\ trace[1].class = "credential" <=> lastItem.error = NoMnemonic

C27_Witness ==
  /\ node = "sdk" /\ mnemonic = "" /\ continueOnFail
  /\ lastItem.resource = "application" /\ lastItem.operation = "callApp"
  /\ lastItem.error = NoMnemonic /\ trace # <<>>
  /\ execData # <<>>

\* C28: detectArcStandard never returns 'ARC69', whatever the url and the
\* name, and verifyStandard reports isArc69 = false for every asset, those
\* created by createArc69 included.
C28_Arc69NeverDetected ==
  /\ fn = "detectArcStandard" => result # "ARC69"
  /\ (fn = "verifyStandard" /\ thrown = NoError) =>
        /\ result.standard # "ARC69"
        /\ result.verification.isArc69 = FALSE

\* C28 witness: a single-unit asset created by createArc69 with a plain
\* media url is verified, and comes out as an NFT of unknown standard
C28_Witness ==
  /\ fn = "verifyStandard" /\ thrown = NoError
  /\ args[1].origin = "createArc69"
  /\ args[1].params.url = Defined(IpfsScheme \o <<"Q", "m">>)
  /\ result.isNft /\ result.standard = "unknown"
  /\ ~result.verification.isArc69
====
